---- MODULE Spec2Model ----
(***************************************************************************)
(* The entity-master library of src/lib/master.py: external organizations  *)
(* and their aliases, other IDs, postcodes and relationships, kept in five *)
(* MySQL tables with soft delete (valid_end).  Every function of the       *)
(* library is one action; merge_external_org and del_external_org are also *)
(* modelled statement by statement for the race the merge docstring names. *)
(* With it, DBConnection.get_or_set_id of src/lib/oria.py and the row      *)
(* transformation of src/Faculty_Profiles/protect_faculty_ids.py.          *)
(***************************************************************************)
EXTENDS Integers, FiniteSets, Sequences, TLC

VARIABLES org,        \* master_external_org
          alias,      \* master_external_org_alias
          other_id,   \* master_external_org_other_id
          postcode,   \* master_external_org_postcode
          rel,        \* master_rel_external_external
          now,        \* the database clock, NOW()
          last,       \* the call that produced this state
          pre,        \* the five tables as they were before that call
          mrg,        \* the merge_external_org call in progress (race only)
          late,       \* rows a competing process added to the loser mid-merge
          conn,       \* DBConnection: offline, _db_write
          db_rows,    \* the tables get_or_set_id looks up and fills
          cache,      \* the dictionaries the scripts pass as cache
          first,      \* what get_or_set_id first returned per cache and key
          ret,        \* the get_or_set_id call that produced this state
          calls,      \* get_or_set_id calls made so far
          pf          \* protect_faculty_ids: key, input row, output row

tables == <<org, alias, other_id, postcode, rel>>
mastervars == <<org, alias, other_id, postcode, rel, now, last, pre, mrg, late>>
idvars == <<conn, db_rows, cache, first, ret, calls>>
vars == <<org, alias, other_id, postcode, rel, now, last, pre, mrg, late,
          conn, db_rows, cache, first, ret, calls, pf>>

----------------------------------------------------------------------------
(* Bounds of the model *)

MaxOps == 3       \* calls per behaviour (also the last value of the clock)
MaxOrgs == 3      \* organizations add_external_org may create in all

(* Values of the SQL columns *)

NULL == 0                       \* valid_end IS NULL
None == "None"                  \* Python None for comment
Star == "*"                     \* the wildcard of the del_* functions
StarOrg == 0                    \* the wildcard in place of org_2_id

OrgIds == 1..MaxOrgs            \* org_id arguments, existing or not
Sources == {1, 2}               \* rows of master_data_source
Comments == {None, "c"}
Credits == {<<1, None>>, <<2, "c">>}   \* (source_id, comment) of a call
Names == {"n1", "n2"}           \* organization names
Aliases == {"a"}
Langs == {"en", "es"}
OtherIds == {"x", "y"}
Schemes == {1}                  \* rows of master_other_id_scheme
Postcodes == {"p1", "p2"}       \* IDs of postcode rows
RelTypes == {1}                 \* rows of master_org_relationship_type

----------------------------------------------------------------------------
(* Rows and their unique keys *)

OrgRow(id, name, source_id, comment) ==
    [id |-> id, name |-> name, source |-> source_id,
     source_comment |-> comment, valid_end |-> NULL]

AliasRow(org_id, a, lang, source_id, comment) ==
    [external_org |-> org_id, alias |-> a, lang |-> lang,
     source |-> source_id, source_comment |-> comment, valid_end |-> NULL]

OtherIdRow(org_id, oid, scheme_id, source_id, comment) ==
    [master_id |-> org_id, other_id |-> oid, scheme |-> scheme_id,
     source |-> source_id, source_comment |-> comment, valid_end |-> NULL]

PostcodeRow(org_id, postcode_id, source_id, comment) ==
    [external_org |-> org_id, postcode |-> postcode_id,
     source |-> source_id, source_comment |-> comment, valid_end |-> NULL]

RelRow(org_1_id, org_2_id, rel_type_id, source_id, comment) ==
    [ext1 |-> org_1_id, ext2 |-> org_2_id, rel |-> rel_type_id,
     source |-> source_id, source_comment |-> comment, valid_end |-> NULL]

AliasKey(r) == <<r.external_org, r.alias, r.lang>>
OtherIdKey(r) == <<r.master_id, r.other_id, r.scheme>>
PostcodeKey(r) == <<r.external_org, r.postcode>>
RelKey(r) == <<r.ext1, r.ext2, r.rel>>

Active0(r) == r.valid_end = NULL
OrgExists(o, id) == \E r \in o : r.id = id

(* INSERT IGNORE of a set of rows: a row whose unique key is already in    *)
(* the table (active or expired) is dropped, the others are added.         *)
InsertAliasReassert(t, rows) ==      \* an expired assertion is asserted anew
    {q \in t : Active0(q) \/ \A r \in rows : AliasKey(q) # AliasKey(r)}
        \cup {r \in rows :
                 \A q \in t : AliasKey(q) = AliasKey(r) => ~Active0(q)}
InsertIgnoreAlias(t, rows) ==
    t \cup {r \in rows : \A q \in t : AliasKey(q) # AliasKey(r)}
InsertOtherIdNoIgnore(t, rows) == t \cup rows        \* INSERT without IGNORE
InsertIgnoreOtherId(t, rows) ==
    t \cup {r \in rows : \A q \in t : OtherIdKey(q) # OtherIdKey(r)}
InsertIgnorePostcode(t, rows) ==
    t \cup {r \in rows : \A q \in t : PostcodeKey(q) # PostcodeKey(r)}
InsertIgnoreRel(t, rows) ==
    t \cup {r \in rows : \A q \in t : RelKey(q) # RelKey(r)}

ExpiredCommentAlways(r, source_id, comment, t) ==   \* comment written even if None
    [r EXCEPT !.valid_end = t, !.source = source_id,
              !.source_comment = comment]

(* UPDATE ... SET valid_end = NOW(), source = %s [, source_comment = %s]   *)
Expired(r, source_id, comment, t) ==
    [r EXCEPT !.valid_end = t, !.source = source_id,
              !.source_comment = IF comment # None THEN comment ELSE @]

----------------------------------------------------------------------------
(* The statements of the del_* functions: the SELECT that looks for a row  *)
(* to expire, and the UPDATE that expires the rows of its WHERE clause.    *)

AliasMatch(r, org_id, a, lang) ==
    /\ r.external_org = org_id
    /\ r.valid_end = NULL
    /\ (a # Star => r.alias = a /\ r.lang = lang)

FindAlias(t, org_id, a, lang) == \E r \in t : AliasMatch(r, org_id, a, lang)

UpdateAlias(t, org_id, a, source_id, lang, comment, time) ==
    {IF AliasMatch(r, org_id, a, lang)
        THEN Expired(r, source_id, comment, time) ELSE r : r \in t}

OtherIdMatchLiteral(r, org_id, oid, scheme_id) ==  \* "*" taken as an ID
    /\ r.master_id = org_id
    /\ r.valid_end = NULL
    /\ r.other_id = oid
    /\ r.scheme = scheme_id

OtherIdMatch(r, org_id, oid, scheme_id) ==
    /\ r.master_id = org_id
    /\ r.valid_end = NULL
    /\ (oid # Star => r.other_id = oid /\ r.scheme = scheme_id)

FindOtherId(t, org_id, oid, scheme_id) ==
    \E r \in t : OtherIdMatch(r, org_id, oid, scheme_id)

UpdateOtherId(t, org_id, oid, scheme_id, source_id, comment, time) ==
    {IF OtherIdMatch(r, org_id, oid, scheme_id)
        THEN Expired(r, source_id, comment, time) ELSE r : r \in t}

PostcodeMatchAnyValidity(r, org_id, postcode_id) ==  \* no valid_end IS NULL
    /\ r.external_org = org_id
    /\ (postcode_id # Star => r.postcode = postcode_id)

PostcodeMatch(r, org_id, postcode_id) ==
    /\ r.external_org = org_id
    /\ r.valid_end = NULL
    /\ (postcode_id # Star => r.postcode = postcode_id)

FindPostcode(t, org_id, postcode_id) ==
    \E r \in t : PostcodeMatch(r, org_id, postcode_id)

UpdatePostcode(t, org_id, postcode_id, source_id, comment, time) ==
    {IF PostcodeMatch(r, org_id, postcode_id)
        THEN Expired(r, source_id, comment, time) ELSE r : r \in t}

RelMatchEitherOrder(r, org_1_id, org_2_id, rel_type_id) ==
    /\ IF org_2_id = StarOrg
          THEN r.ext1 = org_1_id \/ r.ext2 = org_1_id
          ELSE /\ {r.ext1, r.ext2} = {org_1_id, org_2_id}
               /\ r.rel = rel_type_id
    /\ r.valid_end = NULL

RelMatch(r, org_1_id, org_2_id, rel_type_id) ==
    /\ IF org_2_id = StarOrg
          THEN r.ext1 = org_1_id \/ r.ext2 = org_1_id
          ELSE r.ext1 = org_1_id /\ r.ext2 = org_2_id /\ r.rel = rel_type_id
    /\ r.valid_end = NULL

FindRel(t, org_1_id, org_2_id, rel_type_id) ==
    \E r \in t : RelMatch(r, org_1_id, org_2_id, rel_type_id)

UpdateRel(t, org_1_id, org_2_id, rel_type_id, source_id, comment, time) ==
    {IF RelMatch(r, org_1_id, org_2_id, rel_type_id)
        THEN Expired(r, source_id, comment, time) ELSE r : r \in t}

(* A del_* function run alone: nothing is written when the SELECT finds    *)
(* no row, and the UPDATE fails on its foreign key when source_id is not a *)
(* row of master_data_source.                                              *)
DelAlias(t, org_id, a, source_id, lang, comment, time) ==
    IF FindAlias(t, org_id, a, lang) /\ source_id \in Sources
       THEN UpdateAlias(t, org_id, a, source_id, lang, comment, time)
       ELSE t

DelOtherId(t, org_id, oid, scheme_id, source_id, comment, time) ==
    IF FindOtherId(t, org_id, oid, scheme_id) /\ source_id \in Sources
       THEN UpdateOtherId(t, org_id, oid, scheme_id, source_id, comment, time)
       ELSE t

DelPostcode(t, org_id, postcode_id, source_id, comment, time) ==
    IF FindPostcode(t, org_id, postcode_id) /\ source_id \in Sources
       THEN UpdatePostcode(t, org_id, postcode_id, source_id, comment, time)
       ELSE t

DelRel(t, org_1_id, org_2_id, rel_type_id, source_id, comment, time) ==
    IF FindRel(t, org_1_id, org_2_id, rel_type_id) /\ source_id \in Sources
       THEN UpdateRel(t, org_1_id, org_2_id, rel_type_id, source_id, comment,
                      time)
       ELSE t

(* The UPDATE that ends del_external_org: its WHERE clause selects the     *)
(* organization only when valid_end IS NOT NULL.                           *)
UpdateOrg(o, org_id, source_id, comment, time) ==
    {IF r.id = org_id /\ r.valid_end # NULL
        THEN Expired(r, source_id, comment, time) ELSE r : r \in o}

----------------------------------------------------------------------------
(* The INSERT IGNORE ... SELECT statements of merge_external_org *)

CopyAlias(t, keep_id, lose_id) ==
    InsertIgnoreAlias(t,
        {AliasRow(keep_id, r.alias, r.lang, r.source, r.source_comment) :
            r \in {q \in t : q.external_org = lose_id /\ q.valid_end = NULL}})

CopyOtherId(t, keep_id, lose_id) ==
    InsertIgnoreOtherId(t,
        {OtherIdRow(keep_id, r.other_id, r.scheme, r.source, r.source_comment) :
            r \in {q \in t : q.master_id = lose_id /\ q.valid_end = NULL}})

CopyPostcodeNoComment(t, keep_id, lose_id) ==   \* source_comment not selected
    InsertIgnorePostcode(t,
        {PostcodeRow(keep_id, r.postcode, r.source, None) :
            r \in {q \in t : q.external_org = lose_id /\ q.valid_end = NULL}})

CopyPostcode(t, keep_id, lose_id) ==
    InsertIgnorePostcode(t,
        {PostcodeRow(keep_id, r.postcode, r.source, r.source_comment) :
            r \in {q \in t : q.external_org = lose_id /\ q.valid_end = NULL}})

CopyRel1NoExclusion(t, keep_id, lose_id) ==     \* no ext2 <> keep_id
    InsertIgnoreRel(t,
        {RelRow(keep_id, r.ext2, r.rel, r.source, r.source_comment) :
            r \in {q \in t : q.ext1 = lose_id /\ q.valid_end = NULL}})

CopyRel1(t, keep_id, lose_id) ==
    InsertIgnoreRel(t,
        {RelRow(keep_id, r.ext2, r.rel, r.source, r.source_comment) :
            r \in {q \in t : /\ q.ext1 = lose_id
                             /\ q.ext2 # keep_id
                             /\ q.valid_end = NULL}})

CopyRel2(t, keep_id, lose_id) ==
    InsertIgnoreRel(t,
        {RelRow(r.ext1, keep_id, r.rel, r.source, r.source_comment) :
            r \in {q \in t : /\ q.ext2 = lose_id
                             /\ q.ext1 # keep_id
                             /\ q.valid_end = NULL}})

CopyRel(t, keep_id, lose_id) ==
    CopyRel2(CopyRel1(t, keep_id, lose_id), keep_id, lose_id)

----------------------------------------------------------------------------
(* Bookkeeping of a call: the clock moves, the call and the tables before  *)
(* it are recorded.                                                        *)

Snapshot ==
    [org |-> org, alias |-> alias, other_id |-> other_id,
     postcode |-> postcode, rel |-> rel]

CallRec(op, org_id, org_2_id, name, lang, num, source_id, comment, flag, result) ==
    [op |-> op, org_id |-> org_id, org_2_id |-> org_2_id, name |-> name,
     lang |-> lang, num |-> num, source_id |-> source_id,
     comment |-> comment, flag |-> flag, result |-> result]

ResultSwallowed(ok) == "ok"               \* the IntegrityError is dropped

Result(ok) == IF ok THEN "ok" ELSE "MasterNonExistentEntity"

(* The references a new row must satisfy for the INSERT not to fail with   *)
(* an IntegrityError, as the Raises sections of the add_* docstrings give  *)
(* them.                                                                   *)
AliasForeignKeys(o, org_id, source_id) ==
    OrgExists(o, org_id) /\ source_id \in Sources

OtherIdForeignKeys(o, org_id, scheme_id, source_id) ==
    /\ OrgExists(o, org_id)
    /\ scheme_id \in Schemes
    /\ source_id \in Sources

PostcodeForeignKeys(o, org_id, postcode_id, source_id) ==
    /\ OrgExists(o, org_id)
    /\ postcode_id \in Postcodes
    /\ source_id \in Sources

RelForeignKeys(o, org_1_id, org_2_id, rel_type_id, source_id) ==
    /\ OrgExists(o, org_1_id)
    /\ OrgExists(o, org_2_id)
    /\ rel_type_id \in RelTypes
    /\ source_id \in Sources

Call(rec) ==
    /\ now < MaxOps
    /\ now' = now + 1
    /\ last' = rec
    /\ pre' = Snapshot
    /\ UNCHANGED <<idvars, pf>>

(* The statements of merge_external_org and of the del_external_org it     *)
(* ends with, in the order the code runs them.                             *)
Steps ==
    <<"copy_alias", "copy_other_id", "copy_postcode", "copy_rel",
      "find_org",
      "find_other_id", "update_other_id",
      "find_postcode", "update_postcode",
      "find_rel", "update_rel",
      "find_alias", "update_alias",
      "update_org", "done">>

Pos(step) == CHOOSE i \in 1..Len(Steps) : Steps[i] = step

Idle == [pc |-> "idle", keep_id |-> 0, lose_id |-> 0, source_id |-> 0,
         comment |-> None, start |-> {}]

(* A property added to the loser after the merge copied that table and     *)
(* before del_external_org looks for rows of that table to expire.         *)
InWindow(copy, find) ==
    /\ mrg.pc # "idle"
    /\ Pos(mrg.pc) > Pos(copy)
    /\ Pos(mrg.pc) <= Pos(find)

Late(tbl, copy, find, org_ids, key, inserted) ==
    IF InWindow(copy, find) /\ mrg.lose_id \in org_ids /\ inserted
       THEN late \cup {<<tbl, key>>}
       ELSE late

----------------------------------------------------------------------------
(* The functions of the library, each run alone *)

add_external_org(name, source_id, comment) ==
    LET org_id == Cardinality(org) + 1       \* AUTO_INCREMENT
        ok == source_id \in Sources
    IN  /\ Cardinality(org) < MaxOrgs
        /\ Call(CallRec("add_external_org", org_id, 0, name, "", 0,
                        source_id, comment, FALSE, Result(ok)))
        /\ org' = IF ok THEN org \cup {OrgRow(org_id, name, source_id, comment)}
                        ELSE org
        /\ UNCHANGED <<alias, other_id, postcode, rel, mrg, late>>

add_external_org_alias(org_id, a, source_id, lang, comment) ==
    LET row == AliasRow(org_id, a, lang, source_id, comment)
        ok == AliasForeignKeys(org, org_id, source_id)
        new == IF ok THEN InsertIgnoreAlias(alias, {row}) ELSE alias
    IN  /\ Call(CallRec("add_external_org_alias", org_id, 0, a, lang, 0,
                        source_id, comment, FALSE, Result(ok)))
        /\ alias' = new
        /\ late' = Late("alias", "copy_alias", "find_alias", {org_id},
                        AliasKey(row), new # alias)
        /\ UNCHANGED <<org, other_id, postcode, rel, mrg>>

add_external_org_other_id(org_id, oid, scheme_id, source_id, comment) ==
    LET row == OtherIdRow(org_id, oid, scheme_id, source_id, comment)
        ok == OtherIdForeignKeys(org, org_id, scheme_id, source_id)
        new == IF ok THEN InsertIgnoreOtherId(other_id, {row}) ELSE other_id
    IN  /\ Call(CallRec("add_external_org_other_id", org_id, 0, oid, "",
                        scheme_id, source_id, comment, FALSE, Result(ok)))
        /\ other_id' = new
        /\ late' = Late("other_id", "copy_other_id", "find_other_id",
                        {org_id}, OtherIdKey(row), new # other_id)
        /\ UNCHANGED <<org, alias, postcode, rel, mrg>>

add_external_org_postcode(org_id, postcode_id, source_id, comment) ==
    LET row == PostcodeRow(org_id, postcode_id, source_id, comment)
        ok == PostcodeForeignKeys(org, org_id, postcode_id, source_id)
        new == IF ok THEN InsertIgnorePostcode(postcode, {row}) ELSE postcode
    IN  /\ Call(CallRec("add_external_org_postcode", org_id, 0, postcode_id,
                        "", 0, source_id, comment, FALSE, Result(ok)))
        /\ postcode' = new
        /\ late' = Late("postcode", "copy_postcode", "find_postcode",
                        {org_id}, PostcodeKey(row), new # postcode)
        /\ UNCHANGED <<org, alias, other_id, rel, mrg>>

add_external_org_relationship(org_1_id, org_2_id, rel_type_id, source_id, comment) ==
    LET row == RelRow(org_1_id, org_2_id, rel_type_id, source_id, comment)
        ok == RelForeignKeys(org, org_1_id, org_2_id, rel_type_id, source_id)
        new == IF ok THEN InsertIgnoreRel(rel, {row}) ELSE rel
    IN  /\ Call(CallRec("add_external_org_relationship", org_1_id, org_2_id,
                        "", "", rel_type_id, source_id, comment, FALSE,
                        Result(ok)))
        /\ rel' = new
        /\ late' = Late("rel", "copy_rel", "find_rel", {org_1_id, org_2_id},
                        RelKey(row), new # rel)
        /\ UNCHANGED <<org, alias, other_id, postcode, mrg>>

del_external_org_alias(org_id, a, source_id, lang, comment) ==
    /\ Call(CallRec("del_external_org_alias", org_id, 0, a, lang, 0,
                    source_id, comment, FALSE,
                    Result(FindAlias(alias, org_id, a, lang)
                              => source_id \in Sources)))
    /\ alias' = DelAlias(alias, org_id, a, source_id, lang, comment, now')
    /\ UNCHANGED <<org, other_id, postcode, rel, mrg, late>>

del_external_org_other_id(org_id, oid, scheme_id, source_id, comment) ==
    /\ Call(CallRec("del_external_org_other_id", org_id, 0, oid, "",
                    scheme_id, source_id, comment, FALSE,
                    Result(FindOtherId(other_id, org_id, oid, scheme_id)
                              => source_id \in Sources)))
    /\ other_id' = DelOtherId(other_id, org_id, oid, scheme_id, source_id,
                              comment, now')
    /\ UNCHANGED <<org, alias, postcode, rel, mrg, late>>

del_external_org_postcode(org_id, postcode_id, source_id, comment) ==
    /\ Call(CallRec("del_external_org_postcode", org_id, 0, postcode_id, "",
                    0, source_id, comment, FALSE,
                    Result(FindPostcode(postcode, org_id, postcode_id)
                              => source_id \in Sources)))
    /\ postcode' = DelPostcode(postcode, org_id, postcode_id, source_id,
                               comment, now')
    /\ UNCHANGED <<org, alias, other_id, rel, mrg, late>>

del_external_org_relationship(org_1_id, org_2_id, rel_type_id, source_id, comment) ==
    /\ Call(CallRec("del_external_org_relationship", org_1_id, org_2_id, "",
                    "", rel_type_id, source_id, comment, FALSE,
                    Result(FindRel(rel, org_1_id, org_2_id, rel_type_id)
                              => source_id \in Sources)))
    /\ rel' = DelRel(rel, org_1_id, org_2_id, rel_type_id, source_id,
                     comment, now')
    /\ UNCHANGED <<org, alias, other_id, postcode, mrg, late>>

(* del_external_org on the five tables at once: the four del_* calls with  *)
(* the wildcard, then the UPDATE of the organization's own row.            *)
DelExternalOrg(db, org_id, source_id, comment, time) ==
    IF ~OrgExists(db.org, org_id)
       THEN db                              \* org_row is None: return
       ELSE [org |-> IF source_id \in Sources
                        THEN UpdateOrg(db.org, org_id, source_id, comment,
                                       time)
                        ELSE db.org,
             alias |-> DelAlias(db.alias, org_id, Star, source_id, "en",
                                comment, time),
             other_id |-> DelOtherId(db.other_id, org_id, Star, 0,
                                     source_id, comment, time),
             postcode |-> DelPostcode(db.postcode, org_id, Star, source_id,
                                      comment, time),
             rel |-> DelRel(db.rel, org_id, StarOrg, 0, source_id, comment,
                            time)]

DelExternalOrgRaises(db, org_id, source_id) ==
    /\ OrgExists(db.org, org_id)
    /\ source_id \notin Sources
    /\ \/ FindAlias(db.alias, org_id, Star, "en")
       \/ FindOtherId(db.other_id, org_id, Star, 0)
       \/ FindPostcode(db.postcode, org_id, Star)
       \/ FindRel(db.rel, org_id, StarOrg, 0)
       \/ \E r \in db.org : r.id = org_id /\ r.valid_end # NULL

(* merge_external_org on the five tables at once: the copies, then         *)
(* del_external_org of the loser.                                          *)
MergeExternalOrg(db, keep_id, lose_id, source_id, comment, time) ==
    DelExternalOrg([org |-> db.org,
                    alias |-> CopyAlias(db.alias, keep_id, lose_id),
                    other_id |-> CopyOtherId(db.other_id, keep_id, lose_id),
                    postcode |-> CopyPostcode(db.postcode, keep_id, lose_id),
                    rel |-> CopyRel(db.rel, keep_id, lose_id)],
                   lose_id, source_id, comment, time)

SetTables(db) ==
    /\ org' = db.org
    /\ alias' = db.alias
    /\ other_id' = db.other_id
    /\ postcode' = db.postcode
    /\ rel' = db.rel

del_external_org(org_id, source_id, comment) ==
    /\ Call(CallRec("del_external_org", org_id, 0, "", "", 0, source_id,
                    comment, FALSE,
                    Result(~DelExternalOrgRaises(Snapshot, org_id,
                                                 source_id))))
    /\ SetTables(DelExternalOrg(Snapshot, org_id, source_id, comment, now'))
    /\ UNCHANGED <<mrg, late>>

merge_external_org(keep_id, lose_id, source_id, comment) ==
    /\ OrgExists(org, keep_id)
    /\ Call(CallRec("merge_external_org", keep_id, lose_id, "", "", 0,
                    source_id, comment, FALSE,
                    Result(~DelExternalOrgRaises(Snapshot, lose_id,
                                                 source_id))))
    /\ SetTables(MergeExternalOrg(Snapshot, keep_id, lose_id, source_id,
                                  comment, now'))
    /\ UNCHANGED <<mrg, late>>

(* rename_external_org: the name is written over in the organization's     *)
(* row; the old name becomes an alias when alias_old_name is set.          *)
RenameEveryRow(o, org_id, new_name) ==     \* UPDATE without WHERE id = %s
    {[r EXCEPT !.name = new_name] : r \in o}

Rename(o, org_id, new_name) ==
    {IF r.id = org_id THEN [r EXCEPT !.name = new_name] ELSE r : r \in o}

OldName(o, org_id) == (CHOOSE r \in o : r.id = org_id).name

rename_external_org(org_id, new_name, source_id, comment, alias_old_name, old_name_lang) ==
    LET found == OrgExists(org, org_id)
        ok == found /\ (alias_old_name => source_id \in Sources)
    IN  /\ Call(CallRec("rename_external_org", org_id, 0, new_name,
                        old_name_lang, 0, source_id, comment, alias_old_name,
                        Result(ok)))
        /\ org' = IF found THEN Rename(org, org_id, new_name) ELSE org
        /\ alias' = IF ok /\ alias_old_name
                       THEN InsertIgnoreAlias(alias,
                                {AliasRow(org_id, OldName(org, org_id),
                                          old_name_lang, source_id, comment)})
                       ELSE alias
        /\ UNCHANGED <<other_id, postcode, rel, mrg, late>>

(* Nothing looked up through get_or_set_id, no file being protected. *)
NoConnection ==
    /\ conn = [offline |-> FALSE, db_write |-> TRUE]
    /\ db_rows = <<>>
    /\ cache = <<>>
    /\ first = <<>>
    /\ ret = <<>>
    /\ calls = 0

NoFile == pf = <<>>

----------------------------------------------------------------------------
(* The database the calls start from: two organizations loaded by          *)
(* add_external_org, no property asserted yet.                             *)

Init ==
    /\ org = {OrgRow(1, "n1", 1, None), OrgRow(2, "n2", 1, None)}
    /\ alias = {}
    /\ other_id = {}
    /\ postcode = {}
    /\ rel = {}
    /\ now = 0
    /\ last = CallRec("none", 0, 0, "", "", 0, 0, None, FALSE, "ok")
    /\ pre = Snapshot
    /\ mrg = Idle
    /\ late = {}
    /\ NoConnection
    /\ NoFile

AddOrg == \E n \in Names, p \in Credits :
    add_external_org(n, p[1], p[2])
AddAlias == \E o \in OrgIds, a \in Aliases, l \in Langs, p \in Credits :
    add_external_org_alias(o, a, p[1], l, p[2])
AddOtherId == \E o \in OrgIds, x \in OtherIds, k \in Schemes, p \in Credits :
    add_external_org_other_id(o, x, k, p[1], p[2])
AddPostcode == \E o \in OrgIds, c \in Postcodes, p \in Credits :
    add_external_org_postcode(o, c, p[1], p[2])
AddRel == \E o1 \in OrgIds, o2 \in OrgIds, t \in RelTypes, p \in Credits :
    add_external_org_relationship(o1, o2, t, p[1], p[2])
DelAliasCall == \E o \in OrgIds, p \in Credits :
    \/ \E a \in Aliases, l \in Langs :
          del_external_org_alias(o, a, p[1], l, p[2])
    \/ del_external_org_alias(o, Star, p[1], "en", p[2])
DelOtherIdCall == \E o \in OrgIds, p \in Credits :
    \/ \E x \in OtherIds, k \in Schemes :
          del_external_org_other_id(o, x, k, p[1], p[2])
    \/ del_external_org_other_id(o, Star, 0, p[1], p[2])
DelPostcodeCall == \E o \in OrgIds, c \in Postcodes \cup {Star},
                      p \in Credits :
    del_external_org_postcode(o, c, p[1], p[2])
DelRelCall == \E o1 \in OrgIds, p \in Credits :
    \/ \E o2 \in OrgIds, t \in RelTypes :
          del_external_org_relationship(o1, o2, t, p[1], p[2])
    \/ del_external_org_relationship(o1, StarOrg, 0, p[1], p[2])
DelOrg == \E o \in OrgIds, p \in Credits :
    del_external_org(o, p[1], p[2])
Merge == \E k \in OrgIds, l \in OrgIds, p \in Credits :
    merge_external_org(k, l, p[1], p[2])
RenameOrg == \E o \in OrgIds, n \in Names :
    \/ \E p \in Credits, l \in Langs :
          rename_external_org(o, n, p[1], p[2], TRUE, l)
    \/ rename_external_org(o, n, 1, None, FALSE, "en")

Next ==
    \/ AddOrg
    \/ AddAlias
    \/ AddOtherId
    \/ AddPostcode
    \/ AddRel
    \/ DelAliasCall
    \/ DelOtherIdCall
    \/ DelPostcodeCall
    \/ DelRelCall
    \/ DelOrg
    \/ Merge
    \/ RenameOrg

Spec == Init /\ [][Next]_vars

(* Relationships only, among three organizations. *)
InitRel ==
    /\ org = {OrgRow(1, "n1", 1, None), OrgRow(2, "n2", 1, None),
              OrgRow(3, "n1", 2, "c")}
    /\ alias = {}
    /\ other_id = {}
    /\ postcode = {}
    /\ rel = {}
    /\ now = 0
    /\ last = CallRec("none", 0, 0, "", "", 0, 0, None, FALSE, "ok")
    /\ pre = Snapshot
    /\ mrg = Idle
    /\ late = {}
    /\ NoConnection
    /\ NoFile

NextRel ==
    \/ AddRel
    \/ DelRelCall
    \/ DelOrg
    \/ Merge

SpecRel == InitRel /\ [][NextRel]_vars

----------------------------------------------------------------------------
(* merge_external_org statement by statement, with a competing process.    *)
(* Every db.start() ... db.finish() of the merge and of the                *)
(* del_external_org it calls is one step; a call of the competing process  *)
(* may fall between any two of them.                                       *)

Goto(step) ==
    /\ mrg' = [mrg EXCEPT !.pc = step]
    /\ UNCHANGED <<idvars, pf>>

begin_merge(keep_id, lose_id, source_id, comment) ==
    /\ mrg.pc = "idle"
    /\ OrgExists(org, keep_id)
    /\ Call(CallRec("merge_external_org", keep_id, lose_id, "", "", 0,
                    source_id, comment, FALSE, "ok"))
    /\ mrg' = [pc |-> "copy_alias", keep_id |-> keep_id,
               lose_id |-> lose_id, source_id |-> source_id,
               comment |-> comment, start |-> Snapshot]
    /\ late' = {}
    /\ UNCHANGED tables

merge_copy_alias ==
    /\ mrg.pc = "copy_alias"
    /\ alias' = CopyAlias(alias, mrg.keep_id, mrg.lose_id)
    /\ Goto("copy_other_id")
    /\ UNCHANGED <<org, other_id, postcode, rel, now, last, pre, late>>

merge_copy_other_id ==
    /\ mrg.pc = "copy_other_id"
    /\ other_id' = CopyOtherId(other_id, mrg.keep_id, mrg.lose_id)
    /\ Goto("copy_postcode")
    /\ UNCHANGED <<org, alias, postcode, rel, now, last, pre, late>>

merge_copy_postcode ==
    /\ mrg.pc = "copy_postcode"
    /\ postcode' = CopyPostcode(postcode, mrg.keep_id, mrg.lose_id)
    /\ Goto("copy_rel")
    /\ UNCHANGED <<org, alias, other_id, rel, now, last, pre, late>>

merge_copy_rel ==
    /\ mrg.pc = "copy_rel"
    /\ rel' = CopyRel(rel, mrg.keep_id, mrg.lose_id)
    /\ Goto("find_org")
    /\ UNCHANGED <<org, alias, other_id, postcode, now, last, pre, late>>

del_find_org ==
    /\ mrg.pc = "find_org"
    /\ Goto(IF OrgExists(org, mrg.lose_id) THEN "find_other_id" ELSE "done")
    /\ UNCHANGED <<tables, now, last, pre, late>>

del_find_other_id ==
    /\ mrg.pc = "find_other_id"
    /\ Goto(IF FindOtherId(other_id, mrg.lose_id, Star, 0)
               THEN "update_other_id" ELSE "find_postcode")
    /\ UNCHANGED <<tables, now, last, pre, late>>

del_update_other_id ==
    /\ mrg.pc = "update_other_id"
    /\ other_id' = UpdateOtherId(other_id, mrg.lose_id, Star, 0,
                                 mrg.source_id, mrg.comment, now)
    /\ Goto("find_postcode")
    /\ UNCHANGED <<org, alias, postcode, rel, now, last, pre, late>>

del_find_postcode ==
    /\ mrg.pc = "find_postcode"
    /\ Goto(IF FindPostcode(postcode, mrg.lose_id, Star)
               THEN "update_postcode" ELSE "find_rel")
    /\ UNCHANGED <<tables, now, last, pre, late>>

del_update_postcode ==
    /\ mrg.pc = "update_postcode"
    /\ postcode' = UpdatePostcode(postcode, mrg.lose_id, Star,
                                  mrg.source_id, mrg.comment, now)
    /\ Goto("find_rel")
    /\ UNCHANGED <<org, alias, other_id, rel, now, last, pre, late>>

del_find_rel ==
    /\ mrg.pc = "find_rel"
    /\ Goto(IF FindRel(rel, mrg.lose_id, StarOrg, 0)
               THEN "update_rel" ELSE "find_alias")
    /\ UNCHANGED <<tables, now, last, pre, late>>

del_update_rel ==
    /\ mrg.pc = "update_rel"
    /\ rel' = UpdateRel(rel, mrg.lose_id, StarOrg, 0, mrg.source_id,
                        mrg.comment, now)
    /\ Goto("find_alias")
    /\ UNCHANGED <<org, alias, other_id, postcode, now, last, pre, late>>

del_find_alias ==
    /\ mrg.pc = "find_alias"
    /\ Goto(IF FindAlias(alias, mrg.lose_id, Star, "en")
               THEN "update_alias" ELSE "update_org")
    /\ UNCHANGED <<tables, now, last, pre, late>>

del_update_alias ==
    /\ mrg.pc = "update_alias"
    /\ alias' = UpdateAlias(alias, mrg.lose_id, Star, mrg.source_id, "en",
                            mrg.comment, now)
    /\ Goto("update_org")
    /\ UNCHANGED <<org, other_id, postcode, rel, now, last, pre, late>>

del_update_org ==
    /\ mrg.pc = "update_org"
    /\ org' = UpdateOrg(org, mrg.lose_id, mrg.source_id, mrg.comment, now)
    /\ Goto("done")
    /\ UNCHANGED <<alias, other_id, postcode, rel, now, last, pre, late>>

BeginMerge == \E k \in OrgIds, l \in OrgIds, p \in Credits :
    begin_merge(k, l, p[1], p[2])

(* The competing process: any add_* before the merge starts; once it has   *)
(* started, the process of the merge docstring, which adds properties to   *)
(* the loser (relationships with an organization other than keep_id).      *)
ToLoser(org_id) == mrg.pc = "idle" \/ org_id = mrg.lose_id

CompeteAlias == \E o \in OrgIds, a \in Aliases, l \in Langs, p \in Credits :
    ToLoser(o) /\ add_external_org_alias(o, a, p[1], l, p[2])
CompeteOtherId == \E o \in OrgIds, x \in OtherIds, k \in Schemes,
                     p \in Credits :
    ToLoser(o) /\ add_external_org_other_id(o, x, k, p[1], p[2])
CompetePostcode == \E o \in OrgIds, c \in Postcodes, p \in Credits :
    ToLoser(o) /\ add_external_org_postcode(o, c, p[1], p[2])
CompeteRel == \E o1 \in OrgIds, o2 \in OrgIds, t \in RelTypes, p \in Credits :
    /\ \/ mrg.pc = "idle"
       \/ mrg.lose_id \in {o1, o2} /\ mrg.keep_id \notin {o1, o2}
    /\ add_external_org_relationship(o1, o2, t, p[1], p[2])

NextRace ==
    \/ BeginMerge
    \/ merge_copy_alias
    \/ merge_copy_other_id
    \/ merge_copy_postcode
    \/ merge_copy_rel
    \/ del_find_org
    \/ del_find_other_id
    \/ del_update_other_id
    \/ del_find_postcode
    \/ del_update_postcode
    \/ del_find_rel
    \/ del_update_rel
    \/ del_find_alias
    \/ del_update_alias
    \/ del_update_org
    \/ CompeteAlias
    \/ CompeteOtherId
    \/ CompetePostcode
    \/ CompeteRel

SpecRace == InitRel /\ [][NextRace]_vars

----------------------------------------------------------------------------
(* The add_* functions called with IDs that may name no row: source 3,     *)
(* scheme 2, relationship type 2 and postcode "p3" do not exist, nor does  *)
(* an organization before add_external_org has created it.                 *)

AnyCredits == Credits \cup {<<3, None>>, <<3, "c">>}
AnySchemes == Schemes \cup {2}
AnyRelTypes == RelTypes \cup {2}
AnyPostcodes == Postcodes \cup {"p3"}

AddOrgAny == \E n \in Names, p \in AnyCredits :
    add_external_org(n, p[1], p[2])
AddAliasAny == \E o \in OrgIds, a \in Aliases, l \in Langs,
                  p \in AnyCredits :
    add_external_org_alias(o, a, p[1], l, p[2])
AddOtherIdAny == \E o \in OrgIds, x \in OtherIds, k \in AnySchemes,
                    p \in AnyCredits :
    add_external_org_other_id(o, x, k, p[1], p[2])
AddPostcodeAny == \E o \in OrgIds, c \in AnyPostcodes, p \in AnyCredits :
    add_external_org_postcode(o, c, p[1], p[2])
AddRelAny == \E o1 \in OrgIds, o2 \in OrgIds, t \in AnyRelTypes,
                p \in AnyCredits :
    add_external_org_relationship(o1, o2, t, p[1], p[2])

NextErr ==
    \/ AddOrgAny
    \/ AddAliasAny
    \/ AddOtherIdAny
    \/ AddPostcodeAny
    \/ AddRelAny

SpecErr == Init /\ [][NextErr]_vars

----------------------------------------------------------------------------
(* Renames among calls that add and expire aliases; the source given to a  *)
(* rename may name no row.                                                 *)

RenameAny == \E o \in OrgIds, n \in Names :
    \/ \E p \in AnyCredits, l \in Langs :
          rename_external_org(o, n, p[1], p[2], TRUE, l)
    \/ rename_external_org(o, n, 1, None, FALSE, "en")

NextRename ==
    \/ RenameAny
    \/ AddOrg
    \/ AddAlias
    \/ DelAliasCall
    \/ DelOrg

SpecRename == Init /\ [][NextRename]_vars

----------------------------------------------------------------------------
(* DBConnection.get_or_set_id (src/lib/oria.py), called the way            *)
(* src/gco/gco_grant_loader.py calls it for grant types, grant categories  *)
(* and internal organizations.                                             *)

MaxCalls == 4     \* get_or_set_id calls per behaviour

NoId == 0         \* fetch_id found no row (None); IDs start at 1

TableNames == {"gco_grant_type", "gco_grant_category", "gco_internal_org"}
CacheNames == {"grant_types", "grant_categories"}
Codes == {"A", "B"}            \* type_code, category_code, org_code values

\* cache, table: the three calls of the loader
CallSites == {<<"grant_types", "gco_grant_type">>,
              <<"grant_categories", "gco_grant_category">>,
              <<"grant_categories", "gco_internal_org">>}

\* offline, db_write as ArgumentParser.parse_args derives them
Modes == {[offline |-> FALSE, db_write |-> TRUE],     \* neither option
          [offline |-> FALSE, db_write |-> FALSE],    \* --test
          [offline |-> TRUE, db_write |-> FALSE]}     \* --offline

(* A Python dictionary, as the set of its (key, value) pairs. *)
DictHas(d, k) == \E e \in d : e[1] = k
DictGet(d, k) == (CHOOSE e \in d : e[1] = k)[2]
DictSet(d, k, v) == {e \in d : e[1] # k} \cup {<<k, v>>}

\* SELECT id FROM table WHERE key_name = %s, one row read; the key is
\* unique in every table the model reaches
FetchId(tbl, key_value) ==
    IF \E r \in tbl : r.key = key_value
       THEN (CHOOSE r \in tbl : r.key = key_value).id
       ELSE NoId

\* INSERT INTO table ( ... ) VALUES ( ... ), the id from AUTO_INCREMENT
InsertRow(tbl, key_value) ==
    tbl \cup {[id |-> Cardinality(tbl) + 1, key |-> key_value]}

Outcome(d, tbl, result, raised, queries, inserts) ==
    [cache |-> d, tbl |-> tbl, result |-> result, raised |-> raised,
     queries |-> queries, inserts |-> inserts]

\* the cache's NEXT_ID counter is incremented after use
FakeWrite(d, tbl, key_value, queries) ==
    LET n == IF DictHas(d, "NEXT_ID") THEN DictGet(d, "NEXT_ID") ELSE 1
    IN  Outcome(DictSet(DictSet(d, key_value, n), "NEXT_ID", n + 1), tbl, n,
                FALSE, queries, 0)

RealWrite(d, tbl, key_value) ==
    LET new == InsertRow(tbl, key_value)
        item_id == FetchId(new, key_value)
    IN  IF item_id # NoId
           THEN Outcome(DictSet(d, key_value, item_id), new, item_id, FALSE,
                        2, 1)
           ELSE Outcome(d, new, NoId, TRUE, 2, 1)

GetOrSetId(d, tbl, key_value) ==
    IF DictHas(d, key_value)
       THEN Outcome(d, tbl, DictGet(d, key_value), FALSE, 0, 0)
    ELSE IF ~conn.offline /\ FetchId(tbl, key_value) # NoId
       THEN Outcome(DictSet(d, key_value, FetchId(tbl, key_value)), tbl,
                    FetchId(tbl, key_value), FALSE, 1, 0)
    ELSE IF ~conn.db_write
       THEN FakeWrite(d, tbl, key_value, IF conn.offline THEN 0 ELSE 1)
    ELSE RealWrite(d, tbl, key_value)

Seen(c, k) == \E e \in first : e[1] = c /\ e[2] = k
FirstId(c, k) == (CHOOSE e \in first : e[1] = c /\ e[2] = k)[3]

RetRec(op, c, t, k, out, before, seen, first_id) ==
    [op |-> op, cache |-> c, table |-> t, key |-> k,
     result |-> out.result, raised |-> out.raised, queries |-> out.queries,
     inserts |-> out.inserts, before |-> before, seen |-> seen,
     first_id |-> first_id]

get_or_set_id(c, table_name, key_value) ==
    LET out == GetOrSetId(cache[c], db_rows[table_name], key_value)
        seen == Seen(c, key_value)
    IN  /\ calls < MaxCalls
        /\ calls' = calls + 1
        /\ cache' = [cache EXCEPT ![c] = out.cache]
        /\ db_rows' = [db_rows EXCEPT ![table_name] = out.tbl]
        /\ first' = IF seen \/ out.raised THEN first
                       ELSE first \cup {<<c, key_value, out.result>>}
        /\ ret' = RetRec("get_or_set_id", c, table_name, key_value, out,
                         db_rows, seen,
                         IF seen THEN FirstId(c, key_value) ELSE NoId)
        /\ UNCHANGED <<conn, mastervars, pf>>

(* The tables as an earlier run left them: each empty or holding code A. *)
InitIds ==
    /\ org = {}
    /\ alias = {}
    /\ other_id = {}
    /\ postcode = {}
    /\ rel = {}
    /\ now = 0
    /\ last = CallRec("none", 0, 0, "", "", 0, 0, None, FALSE, "ok")
    /\ pre = Snapshot
    /\ mrg = Idle
    /\ late = {}
    /\ conn \in Modes
    /\ db_rows \in [TableNames -> {{}, {[id |-> 1, key |-> "A"]}}]
    /\ cache = [c \in CacheNames |-> {}]
    /\ first = {}
    /\ ret = RetRec("none", "", "", "", Outcome({}, {}, NoId, FALSE, 0, 0),
                    db_rows, FALSE, NoId)
    /\ calls = 0
    /\ NoFile

GetOrSetIdCall == \E s \in CallSites, k \in Codes :
    get_or_set_id(s[1], s[2], k)

NextIds == GetOrSetIdCall

SpecIds == InitIds /\ [][NextIds]_vars

----------------------------------------------------------------------------
(* protect_faculty_ids.py: main, from the header of the CSV on.  A field   *)
(* of the file is a sequence of characters.                                *)

MaxRows == 2            \* data rows read per behaviour

KEY_MAX == 16777215     \* 0xffffff

Digits == <<"0", "1", "2", "3", "4", "5", "6", "7", "8", "9">>

\* the keys the prompt loop lets through are those in 1..KEY_MAX
IdKeys == {1, 6, KEY_MAX}

IdFields == {<<"5">>, <<"1", "2">>, <<" ", "7", " ">>}
TextFields == {<<"x">>, <<" ", "x", " ">>, <<" ">>, <<>>}
DataRows ==
    {<<e, p>> \o t : e \in IdFields, p \in IdFields,
                    t \in {<<f>> : f \in TextFields}
                          \cup {<<f, g>> : f \in TextFields,
                                          g \in {<<"x">>, <<" ">>}}}
Headers == {<<"EDW_PERS_ID", "BANNER_PIDM", "NAME">>,
            <<"BANNER_PIDM", "EDW_PERS_ID", "NAME">>}

RECURSIVE Strip(_)
Strip(f) ==
    IF f = <<>> THEN f
    ELSE IF Head(f) = " " THEN Strip(Tail(f))
    ELSE IF f[Len(f)] = " " THEN Strip(SubSeq(f, 1, Len(f) - 1))
    ELSE f

DigitValue(c) == (CHOOSE i \in 1..10 : Digits[i] = c) - 1

\* int( ) of a string of decimal digits
RECURSIVE ParseInt(_)
ParseInt(f) ==
    IF f = <<>> THEN 0
    ELSE 10 * ParseInt(SubSeq(f, 1, Len(f) - 1)) + DigitValue(f[Len(f)])

\* an integer as the csv writer prints it
RECURSIVE FormatInt(_)
FormatInt(n) ==
    IF n < 10 THEN <<Digits[n + 1]>>
    ELSE FormatInt(n \div 10) \o <<Digits[(n % 10) + 1]>>

\* a ^ b on non-negative integers
RECURSIVE Xor(_, _)
Xor(a, b) ==
    IF a = 0 THEN b
    ELSE IF b = 0 THEN a
    ELSE 2 * Xor(a \div 2, b \div 2) + ((a + b) % 2)

StripAll(row) == [idx \in 1..Len(row) |-> Strip(row[idx])]

\* the row written for a data row
ProtectRow(row, id_key) ==
    LET stripped == StripAll(row)
        edw_id == ParseInt(stripped[1])
    IN  <<FormatInt(Xor(edw_id, id_key))>>
            \o SubSeq(stripped, 3, Len(stripped))

PfRec(pc, id_key, header, n, row, out) ==
    [pc |-> pc, id_key |-> id_key, header |-> header, n |-> n, row |-> row,
     out |-> out]

check_header ==
    /\ pf.pc = "header"
    /\ pf' = IF pf.header[1] # "EDW_PERS_ID" \/ pf.header[2] # "BANNER_PIDM"
                THEN [pf EXCEPT !.pc = "FacultyInfoError"]
                ELSE [pf EXCEPT !.pc = "rows",
                                !.out = <<"FACULTY_ID">>
                                          \o SubSeq(pf.header, 3,
                                                    Len(pf.header))]
    /\ UNCHANGED <<mastervars, idvars>>

protect_row(row) ==
    /\ pf.pc = "rows"
    /\ pf.n < MaxRows
    /\ pf' = [pf EXCEPT !.n = pf.n + 1, !.row = row,
                        !.out = ProtectRow(row, pf.id_key)]
    /\ UNCHANGED <<mastervars, idvars>>

ProtectRowStep == \E row \in DataRows : protect_row(row)

InitProtect ==
    /\ org = {}
    /\ alias = {}
    /\ other_id = {}
    /\ postcode = {}
    /\ rel = {}
    /\ now = 0
    /\ last = CallRec("none", 0, 0, "", "", 0, 0, None, FALSE, "ok")
    /\ pre = Snapshot
    /\ mrg = Idle
    /\ late = {}
    /\ NoConnection
    /\ \E k \in IdKeys, h \in Headers : pf = PfRec("header", k, h, 0, <<>>, <<>>)

NextProtect ==
    \/ check_header
    \/ ProtectRowStep

SpecProtect == InitProtect /\ [][NextProtect]_vars

----------------------------------------------------------------------------
(* Vocabulary of the properties below.  They are stated on the rows, not   *)
(* through the operators the actions are built from.                       *)

Active(r) == r.valid_end = NULL

WasActiveOrg(id) == \E r \in pre.org : r.id = id /\ Active(r)

OrgExpired(id) == \A r \in org : r.id = id => ~Active(r)

NoActiveProperty(id) ==
    /\ \A r \in alias : r.external_org = id => ~Active(r)
    /\ \A r \in other_id : r.master_id = id => ~Active(r)
    /\ \A r \in postcode : r.external_org = id => ~Active(r)
    /\ \A r \in rel : (r.ext1 = id \/ r.ext2 = id) => ~Active(r)

TablesUnchanged == Snapshot = pre

(* C1: after del_external_org on an existing, active organization the      *)
(* organization's row is expired and so is every alias, other ID, postcode *)
(* and relationship of it.                                                 *)
C1_DelExpiresOrgAndProperties ==
    (last.op = "del_external_org" /\ WasActiveOrg(last.org_id))
        => OrgExpired(last.org_id) /\ NoActiveProperty(last.org_id)

(* What del_external_org does achieve: the properties are all expired.     *)
DelExpiresProperties ==
    (last.op = "del_external_org" /\ WasActiveOrg(last.org_id))
        => NoActiveProperty(last.org_id)

(* C2: after merge_external_org, run alone, every alias, other ID and      *)
(* postcode that was active on lose_id is asserted on keep_id, and lose_id *)
(* and all its properties are expired.                                     *)
AssertedOnKeep(keep_id, lose_id) ==
    /\ \A r \in pre.alias : (r.external_org = lose_id /\ Active(r)) =>
          \E q \in alias : AliasKey(q) = <<keep_id, r.alias, r.lang>>
    /\ \A r \in pre.other_id : (r.master_id = lose_id /\ Active(r)) =>
          \E q \in other_id : OtherIdKey(q) = <<keep_id, r.other_id, r.scheme>>
    /\ \A r \in pre.postcode : (r.external_org = lose_id /\ Active(r)) =>
          \E q \in postcode : PostcodeKey(q) = <<keep_id, r.postcode>>

C2_MergeMovesPropertiesAndExpiresLoser ==
    (last.op = "merge_external_org" /\ WasActiveOrg(last.org_2_id))
        => /\ AssertedOnKeep(last.org_id, last.org_2_id)
           /\ OrgExpired(last.org_2_id)
           /\ NoActiveProperty(last.org_2_id)

(* What merge_external_org does achieve: all of C2 but the loser's own row. *)
MergeMovesProperties ==
    (last.op = "merge_external_org" /\ WasActiveOrg(last.org_2_id))
        => /\ AssertedOnKeep(last.org_id, last.org_2_id)
           /\ NoActiveProperty(last.org_2_id)

(* C3: each external natural key (scheme, other_id) has at most one active *)
(* row in master_external_org_other_id, so it maps to at most one          *)
(* organization at a time.                                                 *)
C3_OneActiveRowPerNaturalKey ==
    \A r1 \in other_id, r2 \in other_id :
        (/\ Active(r1)
         /\ Active(r2)
         /\ r1.scheme = r2.scheme
         /\ r1.other_id = r2.other_id) => r1 = r2

(* C3 as amended: each assertion (master_id, scheme, other_id) has at most *)
(* one row, active or expired; the same (scheme, other_id) may be active   *)
(* on several organizations.                                               *)
C3_OneRowPerAssertion ==
    \A r1 \in other_id, r2 \in other_id :
        OtherIdKey(r1) = OtherIdKey(r2) => r1 = r2

(* An other ID asserted again on an organization that has it, while        *)
(* another organization holds the same (scheme, other_id) as well.         *)
C3_Witness ==
    /\ last.op = "add_external_org_other_id"
    /\ \E r \in pre.other_id :
          /\ OtherIdKey(r) = <<last.org_id, last.name, last.num>>
          /\ r.source # last.source_id
    /\ \E r1 \in other_id, r2 \in other_id :
          /\ r1.master_id # r2.master_id
          /\ r1.other_id = r2.other_id /\ r1.scheme = r2.scheme
          /\ Active(r1) /\ Active(r2)

(* C4: rows are never mutated in place: the values a row was written with  *)
(* stay readable, and the only change ever made to an existing row is      *)
(* setting its valid_end from NULL.                                        *)
OnlyValidEndSet(r, q) ==
    \/ q = r
    \/ Active(r) /\ ~Active(q) /\ q = [r EXCEPT !.valid_end = q.valid_end]

SameOrExpiredByCall(r, q) ==
    \/ q = r
    \/ /\ Active(r)
       /\ q.valid_end = now
       /\ q.source = last.source_id
       /\ q.source_comment =
             IF last.comment # None THEN last.comment ELSE r.source_comment

C5_AddOfExistingAssertionIsNoOp ==
    /\ (/\ last.op = "add_external_org_alias"
        /\ \E r \in pre.alias :
              AliasKey(r) = <<last.org_id, last.name, last.lang>>)
          => TablesUnchanged /\ last.result = "ok"
    /\ (/\ last.op = "add_external_org_other_id"
        /\ \E r \in pre.other_id :
              OtherIdKey(r) = <<last.org_id, last.name, last.num>>)
          => TablesUnchanged /\ last.result = "ok"
    /\ (/\ last.op = "add_external_org_postcode"
        /\ \E r \in pre.postcode :
              PostcodeKey(r) = <<last.org_id, last.name>>)
          => TablesUnchanged /\ last.result = "ok"
    /\ (/\ last.op = "add_external_org_relationship"
        /\ \E r \in pre.rel :
              RelKey(r) = <<last.org_id, last.org_2_id, last.num>>)
          => TablesUnchanged /\ last.result = "ok"

(* An alias asserted again after it was expired, by another source.        *)
C5_Witness ==
    /\ last.op = "add_external_org_alias"
    /\ \E r \in alias :
          /\ AliasKey(r) = <<last.org_id, last.name, last.lang>>
          /\ ~Active(r)
          /\ r.source # last.source_id
          /\ r \in pre.alias

(* C6: a del_* call that names an assertion which is not asserted, or is   *)
(* expired already, raises no error and changes no row: the valid_end,     *)
(* source and source_comment of expired rows stay as they are.             *)
C6_DelOfMissingOrExpiredIsNoOp ==
    /\ (/\ last.op = "del_external_org_alias"
        /\ ~\E r \in pre.alias :
              /\ r.external_org = last.org_id /\ Active(r)
              /\ (last.name # Star =>
                     r.alias = last.name /\ r.lang = last.lang))
          => TablesUnchanged /\ last.result = "ok"
    /\ (/\ last.op = "del_external_org_other_id"
        /\ ~\E r \in pre.other_id :
              /\ r.master_id = last.org_id /\ Active(r)
              /\ (last.name # Star =>
                     r.other_id = last.name /\ r.scheme = last.num))
          => TablesUnchanged /\ last.result = "ok"
    /\ (/\ last.op = "del_external_org_postcode"
        /\ ~\E r \in pre.postcode :
              /\ r.external_org = last.org_id /\ Active(r)
              /\ (last.name # Star => r.postcode = last.name))
          => TablesUnchanged /\ last.result = "ok"
    /\ (/\ last.op = "del_external_org_relationship"
        /\ ~\E r \in pre.rel :
              /\ Active(r)
              /\ \/ /\ last.org_2_id = StarOrg
                    /\ last.org_id \in {r.ext1, r.ext2}
                 \/ RelKey(r) = <<last.org_id, last.org_2_id, last.num>>)
          => TablesUnchanged /\ last.result = "ok"

(* A postcode expired by one source and then deleted again by another.     *)
C6_Witness ==
    /\ last.op = "del_external_org_postcode"
    /\ \E r \in postcode :
          /\ PostcodeKey(r) = <<last.org_id, last.name>>
          /\ ~Active(r)
          /\ r.valid_end < now
          /\ r.source # last.source_id

(* C7: a del_* call expires exactly the rows it names: the active row of   *)
(* org_id with the given key, or with '*' every active row of org_id (for  *)
(* relationships: every active row with org_1_id at either end, or the one *)
(* row (org_1_id, org_2_id, rel_type_id) in that order); every other row   *)
(* of every table is left as it was.                                       *)
ExpiresExactly(before, after, named) ==
    /\ \A r \in named : Active(r) /\ [r EXCEPT !.valid_end = now,
                                  !.source = last.source_id,
                                  !.source_comment =
                                      IF last.comment # None
                                         THEN last.comment ELSE @] \in after
    /\ \A r \in before \ named : r \in after
    /\ Cardinality(after) = Cardinality(before)

OthersUnchanged(tbl) ==
    /\ org = pre.org
    /\ tbl = "alias" \/ alias = pre.alias
    /\ tbl = "other_id" \/ other_id = pre.other_id
    /\ tbl = "postcode" \/ postcode = pre.postcode
    /\ tbl = "rel" \/ rel = pre.rel

C7_DelExpiresExactlyTheNamedRows ==
    /\ last.op = "del_external_org_alias" =>
          /\ OthersUnchanged("alias")
          /\ ExpiresExactly(pre.alias, alias,
                {r \in pre.alias :
                    /\ r.external_org = last.org_id /\ Active(r)
                    /\ \/ last.name = Star
                       \/ r.alias = last.name /\ r.lang = last.lang})
    /\ last.op = "del_external_org_other_id" =>
          /\ OthersUnchanged("other_id")
          /\ ExpiresExactly(pre.other_id, other_id,
                {r \in pre.other_id :
                    /\ r.master_id = last.org_id /\ Active(r)
                    /\ \/ last.name = Star
                       \/ r.other_id = last.name /\ r.scheme = last.num})
    /\ last.op = "del_external_org_postcode" =>
          /\ OthersUnchanged("postcode")
          /\ ExpiresExactly(pre.postcode, postcode,
                {r \in pre.postcode :
                    /\ r.external_org = last.org_id /\ Active(r)
                    /\ \/ last.name = Star
                       \/ r.postcode = last.name})
    /\ last.op = "del_external_org_relationship" =>
          /\ OthersUnchanged("rel")
          /\ ExpiresExactly(pre.rel, rel,
                {r \in pre.rel :
                    /\ Active(r)
                    /\ IF last.org_2_id = StarOrg
                          THEN r.ext1 = last.org_id \/ r.ext2 = last.org_id
                          ELSE /\ r.ext1 = last.org_id
                               /\ r.ext2 = last.org_2_id
                               /\ r.rel = last.num})

(* A relationship (a, b) expired by name while the relationship (b, a) of  *)
(* the same type stays active.                                             *)
C7_Witness ==
    /\ last.op = "del_external_org_relationship"
    /\ last.org_2_id # StarOrg
    /\ last.org_id # last.org_2_id
    /\ \E r \in pre.rel :
          Active(r) /\ RelKey(r) = <<last.org_id, last.org_2_id, last.num>>
    /\ \E r \in rel :
          Active(r) /\ RelKey(r) = <<last.org_2_id, last.org_id, last.num>>

(* C8: the rows merge_external_org copies onto keep_id carry the source and *)
(* source_comment of the loser's assertions they are copied from; the      *)
(* source_id and comment given to the merge are written only to the rows   *)
(* the merge expires.                                                      *)
CarriesOrigin(q, r) ==
    IF Active(q)
       THEN q.source = r.source /\ q.source_comment = r.source_comment
       ELSE /\ q.valid_end = now
            /\ q.source = last.source_id
            /\ q.source_comment =
                  IF last.comment # None THEN last.comment
                                         ELSE r.source_comment

C8_MergeCopiesKeepTheirSource ==
    last.op = "merge_external_org" =>
      LET keep_id == last.org_id
          lose_id == last.org_2_id
      IN
      /\ \A q \in alias : (\A r \in pre.alias : AliasKey(r) # AliasKey(q)) =>
            \E r \in pre.alias :
               /\ Active(r) /\ r.external_org = lose_id
               /\ AliasKey(q) = <<keep_id, r.alias, r.lang>>
               /\ Active(q) /\ CarriesOrigin(q, r)
      /\ \A q \in other_id :
            (\A r \in pre.other_id : OtherIdKey(r) # OtherIdKey(q)) =>
            \E r \in pre.other_id :
               /\ Active(r) /\ r.master_id = lose_id
               /\ OtherIdKey(q) = <<keep_id, r.other_id, r.scheme>>
               /\ Active(q) /\ CarriesOrigin(q, r)
      /\ \A q \in postcode :
            (\A r \in pre.postcode : PostcodeKey(r) # PostcodeKey(q)) =>
            \E r \in pre.postcode :
               /\ Active(r) /\ r.external_org = lose_id
               /\ PostcodeKey(q) = <<keep_id, r.postcode>>
               /\ Active(q) /\ CarriesOrigin(q, r)
      /\ \A q \in rel : (\A r \in pre.rel : RelKey(r) # RelKey(q)) =>
            \E r \in pre.rel :
               /\ Active(r)
               /\ \/ r.ext1 = lose_id /\ RelKey(q) = <<keep_id, r.ext2, r.rel>>
                  \/ r.ext2 = lose_id /\ RelKey(q) = <<r.ext1, keep_id, r.rel>>
               /\ CarriesOrigin(q, r)
      /\ \A r \in pre.alias : r \notin alias =>
            r.external_org = lose_id /\ Active(r)
      /\ \A r \in pre.other_id : r \notin other_id =>
            r.master_id = lose_id /\ Active(r)
      /\ \A r \in pre.postcode : r \notin postcode =>
            r.external_org = lose_id /\ Active(r)
      /\ \A r \in pre.rel : r \notin rel =>
            lose_id \in {r.ext1, r.ext2} /\ Active(r)

(* A merge that copied a postcode whose source and comment are not the     *)
(* merge's, and expired the loser's row with the merge's source.           *)
C8_Witness ==
    /\ last.op = "merge_external_org"
    /\ \E q \in postcode \ pre.postcode, r \in postcode :
          /\ q.external_org = last.org_id /\ Active(q)
          /\ q.source # last.source_id
          /\ q.source_comment # None
          /\ r.external_org = last.org_2_id /\ r.postcode = q.postcode
          /\ r.valid_end = now /\ r.source = last.source_id

(* C9: merge_external_org re-asserts every active relationship of lose_id, *)
(* on either end, with keep_id in lose_id's place, except those between    *)
(* keep_id and lose_id, which only expire; afterwards no active            *)
(* relationship goes from keep_id to itself and none names lose_id.        *)
Reasserted(keep_id, lose_id) ==
    /\ \A r \in pre.rel : (Active(r) /\ r.ext1 = lose_id /\ r.ext2 # keep_id)
          => \E q \in rel : RelKey(q) = <<keep_id, r.ext2, r.rel>>
    /\ \A r \in pre.rel : (Active(r) /\ r.ext2 = lose_id /\ r.ext1 # keep_id)
          => \E q \in rel : RelKey(q) = <<r.ext1, keep_id, r.rel>>

NoneNames(lose_id) ==
    \A q \in rel : Active(q) => lose_id \notin {q.ext1, q.ext2}

----------------------------------------------------------------------------
(* A property added to the loser while the merge runs.                     *)

Rows(db, tbl) ==
    CASE tbl = "alias" -> db.alias
      [] tbl = "other_id" -> db.other_id
      [] tbl = "postcode" -> db.postcode
      [] tbl = "rel" -> db.rel

KeyOf(tbl, r) ==
    CASE tbl = "alias" -> AliasKey(r)
      [] tbl = "other_id" -> OtherIdKey(r)
      [] tbl = "postcode" -> PostcodeKey(r)
      [] tbl = "rel" -> RelKey(r)

Keys(db, tbl) == {KeyOf(tbl, r) : r \in Rows(db, tbl)}

\* the keys under which keep_id would hold the loser's property
KeepKeys(tbl, key) ==
    LET k == mrg.keep_id
        l == mrg.lose_id
    IN  CASE tbl = "postcode" -> {<<k, key[2]>>}
          [] tbl = "rel" ->
                {<<e1, e2, key[3]>> :
                    e1 \in (IF key[1] = l THEN {k, l} ELSE {key[1]}),
                    e2 \in (IF key[2] = l THEN {k, l} ELSE {key[2]})}
                \ {key}
          [] OTHER -> {<<k, key[2], key[3]>>}

\* C10: a property that a competing process adds to lose_id after the merge
\* has copied that kind of property and before the merge expires it is
\* never asserted on keep_id (keep_id holds it only if it already did when
\* the merge began), and once the merge is through the property is expired
\* on lose_id.
C10_LateAddIsExpiredAndNeverCopied ==
    \A e \in late :
        /\ mrg.keep_id # mrg.lose_id =>
              \A k \in KeepKeys(e[1], e[2]) :
                  k \in Keys(Snapshot, e[1]) => k \in Keys(mrg.start, e[1])
        /\ mrg.pc = "done" =>
              /\ \E r \in Rows(Snapshot, e[1]) : KeyOf(e[1], r) = e[2]
              /\ \A r \in Rows(Snapshot, e[1]) :
                    KeyOf(e[1], r) = e[2] => ~Active(r)

\* a merge that is through, having copied one other ID of the loser to
\* keep_id and having expired, uncopied, another one added in between
C10_Witness ==
    /\ mrg.pc = "done"
    /\ mrg.keep_id # mrg.lose_id
    /\ \E e \in late :
          /\ e[1] = "other_id"
          /\ KeepKeys(e[1], e[2]) \cap Keys(Snapshot, "other_id") = {}
          /\ \E r \in other_id : OtherIdKey(r) = e[2] /\ ~Active(r)
    /\ \E r \in other_id :
          /\ r.master_id = mrg.keep_id
          /\ Active(r)
          /\ OtherIdKey(r) \notin Keys(mrg.start, "other_id")

----------------------------------------------------------------------------
(* add_* with an ID that names no row.                                     *)

\* the call just made is an add_external_org_* given an organization,
\* scheme, postcode, relationship type or source that did not exist
AddGivenMissingId ==
    \/ /\ last.op \in {"add_external_org_alias", "add_external_org_other_id",
                       "add_external_org_postcode",
                       "add_external_org_relationship"}
       /\ \/ ~OrgExists(pre.org, last.org_id)
          \/ last.source_id \notin Sources
    \/ last.op = "add_external_org_other_id" /\ last.num \notin Schemes
    \/ last.op = "add_external_org_postcode" /\ last.name \notin Postcodes
    \/ /\ last.op = "add_external_org_relationship"
       /\ \/ last.num \notin RelTypes
          \/ ~OrgExists(pre.org, last.org_2_id)

\* C11: an add_external_org_* call given an organization ID, a scheme,
\* postcode or relationship-type ID, or a source ID that does not exist
\* raises MasterNonExistentEntity and inserts no row.
C11_AddWithMissingIdRaisesAndInsertsNothing ==
    AddGivenMissingId =>
        /\ last.result = "MasterNonExistentEntity"
        /\ TablesUnchanged

\* an other ID added under a scheme that does not exist, to an existing
\* organization from an existing source, after another other ID was stored
C11_Witness ==
    /\ last.op = "add_external_org_other_id"
    /\ OrgExists(pre.org, last.org_id)
    /\ last.source_id \in Sources
    /\ last.num \notin Schemes
    /\ last.result = "MasterNonExistentEntity"
    /\ pre.other_id # {}

----------------------------------------------------------------------------
(* rename_external_org.                                                    *)

Renamed == last.op = "rename_external_org"

PreOrgRow == CHOOSE r \in pre.org : r.id = last.org_id

OldAliasKey == <<last.org_id, PreOrgRow.name, last.lang>>

\* C12 as stated, for calls that return: after rename_external_org on an
\* existing organization its name is new_name, its other columns are as
\* before, and with alias_old_name the previous name is an active alias of
\* the organization in old_name_lang; on an organization that does not
\* exist the call raises MasterNonExistentEntity and changes nothing.
C12_RenameSetsNameAndAssertsOldName ==
    Renamed =>
        IF OrgExists(pre.org, last.org_id)
           THEN last.result = "ok" =>
                  /\ [PreOrgRow EXCEPT !.name = last.name] \in org
                  /\ last.flag =>
                        \E q \in alias : AliasKey(q) = OldAliasKey /\ Active(q)
           ELSE last.result = "MasterNonExistentEntity" /\ TablesUnchanged

\* C12 as amended: after rename_external_org on an existing organization
\* the organization's row has new_name as its name and is otherwise as it
\* was, and no other organization changes.  With alias_old_name and a
\* source that exists, the alias table holds a row for the previous name
\* in old_name_lang: the row that was already there for that organization,
\* alias and language, left as it was even if expired, or else a new
\* active row with the call's source and comment; no other alias row
\* changes.  With alias_old_name and a source that does not exist the call
\* raises MasterNonExistentEntity after the name has been changed and adds
\* no alias.  On an organization that does not exist the call raises
\* MasterNonExistentEntity and changes nothing.
C12_RenameSetsNameAndRecordsOldName ==
    Renamed =>
        IF OrgExists(pre.org, last.org_id)
           THEN /\ org = (pre.org \ {PreOrgRow})
                           \cup {[PreOrgRow EXCEPT !.name = last.name]}
                /\ <<other_id, postcode, rel>> =
                      <<pre.other_id, pre.postcode, pre.rel>>
                /\ last.result =
                      IF last.flag /\ last.source_id \notin Sources
                         THEN "MasterNonExistentEntity" ELSE "ok"
                /\ IF last.flag /\ last.result = "ok"
                      /\ OldAliasKey \notin {AliasKey(r) : r \in pre.alias}
                      THEN alias = pre.alias \cup
                              {AliasRow(last.org_id, PreOrgRow.name,
                                        last.lang, last.source_id,
                                        last.comment)}
                      ELSE alias = pre.alias
           ELSE last.result = "MasterNonExistentEntity" /\ TablesUnchanged

\* a rename that changed the name and was to alias the old one, on an
\* organization that already held that alias, expired
C12_Witness ==
    /\ Renamed
    /\ last.flag
    /\ last.result = "ok"
    /\ OrgExists(pre.org, last.org_id)
    /\ PreOrgRow.name # last.name
    /\ \E r \in pre.alias : AliasKey(r) = OldAliasKey /\ ~Active(r)
    /\ \E q \in org : q.id = last.org_id /\ q.name = last.name

----------------------------------------------------------------------------
(* get_or_set_id.                                                          *)

GotOrSet == ret.op = "get_or_set_id"

\* the ID of the existing row is returned, or exactly one row is created
\* and its ID returned
FoundOrCreated ==
    LET old == ret.before[ret.table]
        new == db_rows[ret.table]
    IN  /\ ~ret.raised
        /\ \A t \in TableNames \ {ret.table} : db_rows[t] = ret.before[t]
        /\ IF \E r \in old : r.key = ret.key
              THEN /\ new = old
                   /\ \E r \in old : r.key = ret.key /\ r.id = ret.result
              ELSE \E r \in new \ old :
                      /\ new = old \cup {r}
                      /\ r.key = ret.key
                      /\ r.id = ret.result

\* a repeated call with the same cache and key returns the same ID without
\* a query or an insert, and no call inserts more than once
RepeatIsCached ==
    /\ ret.inserts <= 1
    /\ ret.seen =>
          /\ ret.result = ret.first_id
          /\ ret.queries = 0
          /\ ret.inserts = 0

\* C13, on a connection that writes (neither --test nor --offline):
\* get_or_set_id returns the ID of the existing row whose key column equals
\* the key value or, when none exists, creates exactly one row and returns
\* its ID; with the same cache, repeated calls for the same key value return
\* the same ID, issue no further query and perform at most one insert.
C13_GetOrSetIdFindsOrCreatesOnceAndCaches ==
    (GotOrSet /\ conn.db_write) => (FoundOrCreated /\ RepeatIsCached)

\* the same, for the calls that pass a cache no other table shares
GetOrSetIdOwnCache ==
    (GotOrSet /\ conn.db_write /\ ret.cache = "grant_types")
        => (FoundOrCreated /\ RepeatIsCached)

\* the repeated-call half, in every mode and for every call
GetOrSetIdRepeatIsCached == GotOrSet => RepeatIsCached

----------------------------------------------------------------------------
(* protect_faculty_ids.                                                    *)

DataRowWritten == pf.pc = "rows" /\ pf.n > 0

RestStripped ==
    SubSeq(pf.out, 2, Len(pf.out)) = SubSeq(StripAll(pf.row), 3, Len(pf.row))

\* C14: for every data row the output row's FACULTY_ID is the input row's
\* BANNER_PIDM XOR the key, the EDW_PERS_ID value does not appear in it,
\* and its remaining columns are the input's third and later columns
\* stripped of surrounding whitespace.
C14_FacultyIdIsPidmXorKey ==
    DataRowWritten =>
        /\ pf.out[1] = FormatInt(Xor(ParseInt(Strip(pf.row[2])), pf.id_key))
        /\ pf.out[1] # Strip(pf.row[1])
        /\ RestStripped

\* what main writes: the EDW_PERS_ID XOR the key, then the stripped third
\* and later columns; the BANNER_PIDM is not used
ProtectWritesEdwXorKey ==
    DataRowWritten =>
        /\ pf.out[1] = FormatInt(Xor(ParseInt(Strip(pf.row[1])), pf.id_key))
        /\ pf.out[1] # Strip(pf.row[1])
        /\ RestStripped

====
